---- MODULE Spec2Model ----
(***************************************************************************)
(* Job Helper API (src/main.py): two POST handlers that render a prompt,   *)
(* send it to the provider through call_openai_for_json, check the keys of *)
(* the parsed answer and build the typed response.                         *)
(*                                                                         *)
(* Text is modelled at the token level: a provider text is a sequence of   *)
(* JSON tokens, json.loads is a recursive-descent parser over it.  Numbers *)
(* are kept in tenths (826 is 82.6), which is exact for round(): every tie *)
(* x.5 is exactly representable as a binary float.                         *)
(***************************************************************************)
EXTENDS Integers, Sequences, FiniteSets, TLC

VARIABLES endpoint, payload, prompt, provider, gateway, response

vars == <<endpoint, payload, prompt, provider, gateway, response>>

(***************************************************************************)
(* Bounds of the model.                                                    *)
(***************************************************************************)
MaxToks == 2
MaxKw == 2
MaxFocus == 2

SeqsUpTo(S, n) == UNION {[1..k -> S] : k \in 0..n}

(***************************************************************************)
(* Python values as json.loads produces them.  One record shape for every  *)
(* value: ty is the Python type, n the number in tenths (or 0/1 of a       *)
(* bool), s the string, keys/kids the members of a dict, kids the items of *)
(* a list.                                                                 *)
(***************************************************************************)
JVal(ty, n, s, keys, kids) == [ty |-> ty, n |-> n, s |-> s, keys |-> keys, kids |-> kids]
JNull == JVal("null", 0, "", <<>>, <<>>)
JBool(b) == JVal("bool", IF b THEN 1 ELSE 0, "", <<>>, <<>>)
JNum(t) == JVal("num", t, "", <<>>, <<>>)
JInf == JVal("inf", 0, "", <<>>, <<>>)
JNaN == JVal("nan", 0, "", <<>>, <<>>)
JStr(s) == JVal("str", 0, s, <<>>, <<>>)
JList(kids) == JVal("list", 0, "", <<>>, kids)
JDict(keys, kids) == JVal("dict", 0, "", keys, kids)

Range(seq) == {seq[i] : i \in 1..Len(seq)}

IndexOf(seq, x) == CHOOSE i \in 1..Len(seq) : seq[i] = x

\* d[k] = v on a Python dict: a repeated key keeps its place and takes the last value.
DictPut(keys, kids, k, v) ==
    IF k \in Range(keys)
    THEN [keys |-> keys, kids |-> [kids EXCEPT ![IndexOf(keys, k)] = v]]
    ELSE [keys |-> Append(keys, k), kids |-> Append(kids, v)]

(***************************************************************************)
(* Tokens of a text.  "word" is anything that is no JSON token (prose, a   *)
(* heading, the repr of an object).                                        *)
(***************************************************************************)
Tok(k, s, n) == [k |-> k, s |-> s, n |-> n]
P(s) == Tok("punct", s, 0)
TNull == Tok("null", "", 0)
TTrue == Tok("true", "", 0)
TFalse == Tok("false", "", 0)
TNum(t) == Tok("num", "", t)
TInf == Tok("inf", "", 0)
TNaN == Tok("nan", "", 0)
TStr(s) == Tok("str", s, 0)
TWord(s) == Tok("word", s, 0)

(***************************************************************************)
(* json.loads: value, then end of text.  Python's decoder also accepts the *)
(* literals NaN and Infinity.                                              *)
(***************************************************************************)
PFail == [ok |-> FALSE, val |-> JNull, rest |-> <<>>]
POk(v, rest) == [ok |-> TRUE, val |-> v, rest |-> rest]

RECURSIVE ParseValue(_)
RECURSIVE ParseElems(_, _)
RECURSIVE ParseMembers(_, _, _)

ParseElems(toks, acc) ==
    LET r == ParseValue(toks) IN
    IF ~r.ok \/ r.rest = <<>> THEN PFail
    ELSE IF Head(r.rest) = P(",") THEN ParseElems(Tail(r.rest), Append(acc, r.val))
    ELSE IF Head(r.rest) = P("]") THEN POk(JList(Append(acc, r.val)), Tail(r.rest))
    ELSE PFail

ParseMembers(toks, keys, kids) ==
    IF Len(toks) < 2 \/ Head(toks).k # "str" \/ toks[2] # P(":") THEN PFail
    ELSE LET r == ParseValue(Tail(Tail(toks)))
             d == DictPut(keys, kids, Head(toks).s, r.val)
         IN  IF ~r.ok \/ r.rest = <<>> THEN PFail
             ELSE IF Head(r.rest) = P(",") THEN ParseMembers(Tail(r.rest), d.keys, d.kids)
             ELSE IF Head(r.rest) = P("}") THEN POk(JDict(d.keys, d.kids), Tail(r.rest))
             ELSE PFail

ParseValue(toks) ==
    IF toks = <<>> THEN PFail
    ELSE LET t == Head(toks)
             rest == Tail(toks)
         IN  CASE t.k = "null" -> POk(JNull, rest)
               [] t.k = "true" -> POk(JBool(TRUE), rest)
               [] t.k = "false" -> POk(JBool(FALSE), rest)
               [] t.k = "num" -> POk(JNum(t.n), rest)
               [] t.k = "inf" -> POk(JInf, rest)
               [] t.k = "nan" -> POk(JNaN, rest)
               [] t.k = "str" -> POk(JStr(t.s), rest)
               [] t = P("[") -> IF rest # <<>> /\ Head(rest) = P("]")
                                THEN POk(JList(<<>>), Tail(rest))
                                ELSE ParseElems(rest, <<>>)
               [] t = P("{") -> IF rest # <<>> /\ Head(rest) = P("}")
                                THEN POk(JDict(<<>>, <<>>), Tail(rest))
                                ELSE ParseMembers(rest, <<>>, <<>>)
               [] OTHER -> PFail

\* json.loads(text): ok = FALSE is json.JSONDecodeError.
Loads(text) ==
    LET r == ParseValue(text) IN
    IF r.ok /\ r.rest = <<>> THEN [ok |-> TRUE, val |-> r.val]
    ELSE [ok |-> FALSE, val |-> JNull]

(***************************************************************************)
(* Outcomes.  A call either returns a value or raises; what it raises is   *)
(* an HTTPException(status_code, detail) or some other exception class     *)
(* (exc) that nothing in main.py catches.                                  *)
(***************************************************************************)
Outcome(kind, status_code, detail, exc, val) ==
    [kind |-> kind, status_code |-> status_code, detail |-> detail, exc |-> exc, val |-> val]
Return(val) == Outcome("return", 200, "", "", val)
HTTPException(status_code, detail) == Outcome("HTTPException", status_code, detail, "", JNull)
Uncaught(exc) == Outcome("uncaught", 0, "", exc, JNull)
NoOutcome == Outcome("none", 0, "", "", JNull)

FormatErrorDetail == "OpenAI did not return valid JSON. Check the prompt or response."
GatewayErrorPrefix == "Error while calling OpenAI: "
ExtractionErrorMsg == "'Response' object has no attribute 'output'"
JsonLoadsTypeErrorMsg == "the JSON object must be str, bytes or bytearray, not NoneType"

(***************************************************************************)
(* The provider's side of client.responses.create: it raises exc(msg), or  *)
(* returns a response.  A structured response has output[0].content[0].text*)
(* (a str, or None when textIsStr is FALSE); for any other response the    *)
(* extraction raises and str(response), repr, is used.                     *)
(***************************************************************************)
ProviderRaise(exc, msg) ==
    [kind |-> "raise", exc |-> exc, msg |-> msg, structured |-> FALSE,
     textIsStr |-> FALSE, text |-> <<>>, repr |-> <<>>]
ProviderText(text) ==
    [kind |-> "response", exc |-> "", msg |-> "", structured |-> TRUE,
     textIsStr |-> TRUE, text |-> text, repr |-> <<>>]
ProviderNoneText ==
    [kind |-> "response", exc |-> "", msg |-> "", structured |-> TRUE,
     textIsStr |-> FALSE, text |-> <<>>, repr |-> <<>>]
ProviderUnstructured(repr) ==
    [kind |-> "response", exc |-> "", msg |-> "", structured |-> FALSE,
     textIsStr |-> FALSE, text |-> <<>>, repr |-> repr]
NoProvider ==
    [kind |-> "none", exc |-> "", msg |-> "", structured |-> FALSE,
     textIsStr |-> FALSE, text |-> <<>>, repr |-> <<>>]

\* Variant: the except Exception clause alone.
ExceptClausesNoJsonClause(exc, msg) == HTTPException(500, GatewayErrorPrefix \o msg)

\* except json.JSONDecodeError / except Exception as e, in that order.
ExceptClauses(exc, msg) ==
    IF exc = "JSONDecodeError"
    THEN HTTPException(500, FormatErrorDetail)
    ELSE HTTPException(500, GatewayErrorPrefix \o msg)

\* Variant: no inner try/except, a failed extraction reaches the outer clauses.
CallNoFallback(prov) ==
    IF prov.kind = "raise" THEN ExceptClauses(prov.exc, prov.msg)
    ELSE IF ~prov.structured THEN ExceptClauses("AttributeError", ExtractionErrorMsg)
    ELSE IF ~prov.textIsStr THEN ExceptClauses("TypeError", JsonLoadsTypeErrorMsg)
    ELSE LET r == Loads(prov.text) IN
         IF r.ok THEN Return(r.val) ELSE ExceptClauses("JSONDecodeError", "")

\* The extraction falls back to str(response); json.loads(None) is a TypeError.
call_openai_for_json(prov) ==
    IF prov.kind = "raise" THEN ExceptClauses(prov.exc, prov.msg)
    ELSE IF prov.structured /\ ~prov.textIsStr
         THEN ExceptClauses("TypeError", JsonLoadsTypeErrorMsg)
    ELSE LET text_output == IF prov.structured THEN prov.text ELSE prov.repr
             r == Loads(text_output)
         IN  IF r.ok THEN Return(r.val) ELSE ExceptClauses("JSONDecodeError", "")

(***************************************************************************)
(* Python operations the handlers apply to the parsed data.                *)
(***************************************************************************)
KeysText == "match_score, top_keywords, missing_or_weak_keywords, suggested_resume_edits, cover_letter_text"

\* sub in s, for the strings of this model: only KeysText holds a key as a substring.
StrContains(s, sub) == s = KeysText \/ s = sub

\* key in data, defined for dict (its keys), list (its items) and str (substring).
IsContainer(data) == data.ty \in {"dict", "list", "str"}

PyIn(key, data) ==
    CASE data.ty = "dict" -> key \in Range(data.keys)
      [] data.ty = "list" -> JStr(key) \in Range(data.kids)
      [] data.ty = "str" -> StrContains(data.s, key)

\* data[key] of a dict that has the key.
DictItem(data, key) == data.kids[IndexOf(data.keys, key)]

\* data.get(key, default): the default only when the key is absent.
DictGet(data, key, default) ==
    IF key \in Range(data.keys) THEN DictItem(data, key) ELSE default

\* float("..."): the numeric strings of this model; any other string is a ValueError.
FloatOfStr(s) ==
    CASE s = "82.6" -> [ok |-> TRUE, t |-> 826]
      [] s = "70" -> [ok |-> TRUE, t |-> 700]
      [] OTHER -> [ok |-> FALSE, t |-> 0]

\* float(v): kind is finite, inf or nan; exc the exception when ok is FALSE.
PyFloat(v) ==
    CASE v.ty = "num" -> [ok |-> TRUE, kind |-> "finite", t |-> v.n, exc |-> ""]
      [] v.ty = "bool" -> [ok |-> TRUE, kind |-> "finite", t |-> 10 * v.n, exc |-> ""]
      [] v.ty = "inf" -> [ok |-> TRUE, kind |-> "inf", t |-> 0, exc |-> ""]
      [] v.ty = "nan" -> [ok |-> TRUE, kind |-> "nan", t |-> 0, exc |-> ""]
      [] v.ty = "str" -> IF FloatOfStr(v.s).ok
                         THEN [ok |-> TRUE, kind |-> "finite", t |-> FloatOfStr(v.s).t, exc |-> ""]
                         ELSE [ok |-> FALSE, kind |-> "", t |-> 0, exc |-> "ValueError"]
      [] OTHER -> [ok |-> FALSE, kind |-> "", t |-> 0, exc |-> "TypeError"]

\* Variant: int(x), truncation toward zero.
PyRoundTruncate(t) == IF t >= 0 THEN t \div 10 ELSE -((-t) \div 10)

\* int(round(x)) of a finite float x = t / 10: to nearest, ties to the even integer.
PyRound(t) ==
    LET q == t \div 10
        r == t % 10
    IN  IF r < 5 THEN q
        ELSE IF r > 5 THEN q + 1
        ELSE IF q % 2 = 0 THEN q ELSE q + 1

(***************************************************************************)
(* pydantic validation of the response models' fields.  Inputs on which    *)
(* pydantic 1 and 2 disagree (a number where str is declared, which 1      *)
(* converts and 2 rejects) are not among the provider texts below.         *)
(***************************************************************************)
ValidStr(v) == v.ty = "str"
ValidOptionalStr(v) == v.ty \in {"str", "null"}
ValidListOfStr(v) == v.ty = "list" /\ \A i \in 1..Len(v.kids) : v.kids[i].ty = "str"

(***************************************************************************)
(* score_resume, from the gateway's outcome to the handler's.              *)
(***************************************************************************)
required_keys == <<"match_score", "top_keywords", "missing_or_weak_keywords", "suggested_resume_edits">>

\* Variant: the keys checked from the last to the first.
RECURSIVE FirstMissingFromEnd(_, _)
FirstMissingFromEnd(keys, data) ==
    IF keys = <<>> THEN ""
    ELSE IF ~PyIn(keys[Len(keys)], data) THEN keys[Len(keys)]
    ELSE FirstMissingFromEnd(SubSeq(keys, 1, Len(keys) - 1), data)

\* for key in keys: if key not in data: raise.  The key raised for, "" when none is.
RECURSIVE FirstMissing(_, _)
FirstMissing(keys, data) ==
    IF keys = <<>> THEN ""
    ELSE IF ~PyIn(Head(keys), data) THEN Head(keys)
    ELSE FirstMissing(Tail(keys), data)

ScoreResumeResponse(match_score, top_keywords, missing_or_weak_keywords, suggested_resume_edits) ==
    IF /\ ValidListOfStr(top_keywords)
       /\ ValidListOfStr(missing_or_weak_keywords)
       /\ ValidStr(suggested_resume_edits)
    THEN Return(JDict(required_keys,
                      <<JNum(10 * match_score), top_keywords,
                        missing_or_weak_keywords, suggested_resume_edits>>))
    ELSE Uncaught("ValidationError")

\* key not in data raises TypeError on a value that is no container; data[key] with
\* a str key raises TypeError on a list or str.
ScoreFromData(data) ==
    IF ~IsContainer(data) THEN Uncaught("TypeError")
    ELSE LET missing == FirstMissing(required_keys, data) IN
    IF missing # "" THEN HTTPException(500, "Missing key in OpenAI response: " \o missing)
    ELSE IF data.ty # "dict" THEN Uncaught("TypeError")
    ELSE LET f == PyFloat(DictItem(data, "match_score")) IN
    IF ~f.ok THEN Uncaught(f.exc)
    ELSE IF f.kind = "inf" THEN Uncaught("OverflowError")
    ELSE IF f.kind = "nan" THEN Uncaught("ValueError")
    ELSE ScoreResumeResponse(PyRound(f.t),
                             DictGet(data, "top_keywords", JList(<<>>)),
                             DictGet(data, "missing_or_weak_keywords", JList(<<>>)),
                             DictGet(data, "suggested_resume_edits", JStr("")))

(***************************************************************************)
(* Requests.  An Optional field is [some, v]; None has some = FALSE.       *)
(***************************************************************************)
Some(v) == [some |-> TRUE, v |-> v]
NoneStr == [some |-> FALSE, v |-> ""]
NoneList == [some |-> FALSE, v |-> <<>>]

JobInfo(company, role_title, location, job_description, job_url) ==
    [company |-> company, role_title |-> role_title, location |-> location,
     job_description |-> job_description, job_url |-> job_url]
ResumeInfo(name, text) == [name |-> name, text |-> text]
Extras(tone, length, focus_points) ==
    [tone |-> tone, length |-> length, focus_points |-> focus_points]

\* ExtrasInfo(): the field defaults of the class.
ExtrasInfo == Extras(Some("professional but conversational"), Some("3 paragraphs"), NoneList)

NoExtras == [some |-> FALSE, v |-> Extras(NoneStr, NoneStr, NoneList)]

Request(job, resume, extras) == [job |-> job, resume |-> resume, extras |-> extras]

\* str(x) of an Optional[str] inside an f-string.
FmtOptional(o) == IF o.some THEN o.v ELSE "None"

\* x or default, on an Optional[str]: None and "" are falsy.
OrElse(o, default) == IF o.some /\ o.v # "" THEN o.v ELSE default

\* Variant: the items joined last to first.
RECURSIVE JoinReversed(_, _)
JoinReversed(sep, items) ==
    IF items = <<>> THEN ""
    ELSE IF Len(items) = 1 THEN items[1]
    ELSE JoinReversed(sep, Tail(items)) \o sep \o Head(items)

\* sep.join(items)
RECURSIVE Join(_, _)
Join(sep, items) ==
    IF items = <<>> THEN ""
    ELSE IF Len(items) = 1 THEN items[1]
    ELSE Head(items) \o sep \o Join(sep, Tail(items))

(***************************************************************************)
(* The prompts, as the lines of the f-strings after interpolation.         *)
(***************************************************************************)
ScorePrompt(job, resume) ==
    << "",
       "You are acting as an ATS style resume evaluator.",
       "",
       "Job description:",
       job.job_description,
       "",
       "Candidate resume:",
       resume.text,
       "",
       "Tasks:",
       "1. Give an overall match score from 0 to 100, where 100 means the resume is an excellent match.",
       "2. List the 10 to 15 most important skills, keywords, or phrases from the job description that a hiring manager would expect in a strong resume for this role.",
       "3. Identify which of those keywords or skills are missing or only weakly represented in the resume.",
       "4. Suggest specific edits to the resume that would improve the match, including examples of bullet point changes or additions.",
       "",
       "Respond in valid JSON only, with this structure:",
       "",
       "{",
       "  \"match_score\": number,",
       "  \"top_keywords\": [ \"keyword1\", \"keyword2\", ... ],",
       "  \"missing_or_weak_keywords\": [ \"kwA\", \"kwB\", ... ],",
       "  \"suggested_resume_edits\": \"string with concrete suggestions\"",
       "}",
       "" >>

\* Variant: payload.extras used as it is.
ExtrasOrDefaultNoSubstitute(extras) == extras.v

\* payload.extras or ExtrasInfo(): a model instance is always truthy.
ExtrasOrDefault(extras) == IF extras.some THEN extras.v ELSE ExtrasInfo

\* focus_points_text: None and [] are falsy.
FocusPointsText(extras) ==
    IF extras.focus_points.some /\ extras.focus_points.v # <<>>
    THEN "Focus on these points: " \o Join(", ", extras.focus_points.v)
    ELSE ""

ToneLine == 15
LengthLine == 16
FocusLine == 17

CoverLetterPrompt(job, resume, extras) ==
    << "",
       "You are a job application assistant that writes tailored cover letters.",
       "",
       "Job description:",
       job.job_description,
       "",
       "Company: " \o job.company,
       "Role title: " \o job.role_title,
       "Location: " \o OrElse(job.location, "N/A"),
       "",
       "Candidate resume:",
       resume.text,
       "",
       "Write a cover letter with the following guidelines:",
       "- Tone: " \o FmtOptional(extras.tone),
       "- Length: " \o FmtOptional(extras.length),
       "- " \o FocusPointsText(extras),
       "",
       "The cover letter should highlight the candidate's most relevant experience and skills for this specific role and company. It should sound natural and professional.",
       "",
       "Respond in valid JSON only, with this structure:",
       "",
       "{",
       "  \"cover_letter_text\": \"full cover letter text here\",",
       "  \"summary\": \"one sentence summary of why this candidate is a strong fit\"",
       "}",
       "" >>

(***************************************************************************)
(* generate_cover_letter, from the gateway's outcome to the handler's.     *)
(***************************************************************************)
cover_keys == <<"cover_letter_text", "summary">>

GenerateCLResponse(cover_letter_text, summary) ==
    IF ValidStr(cover_letter_text) /\ ValidOptionalStr(summary)
    THEN Return(JDict(cover_keys, <<cover_letter_text, summary>>))
    ELSE Uncaught("ValidationError")

\* Variant: the summary is not passed on.
CoverFromDataNoSummary(data) ==
    IF ~IsContainer(data) THEN Uncaught("TypeError")
    ELSE IF ~PyIn("cover_letter_text", data)
    THEN HTTPException(500, "Missing 'cover_letter_text' in OpenAI response")
    ELSE IF data.ty # "dict" THEN Uncaught("AttributeError")
    ELSE GenerateCLResponse(DictGet(data, "cover_letter_text", JStr("")), JNull)

\* "cover_letter_text" not in data raises TypeError on a value that is no container;
\* data.get exists on a dict only.
CoverFromData(data) ==
    IF ~IsContainer(data) THEN Uncaught("TypeError")
    ELSE IF ~PyIn("cover_letter_text", data)
    THEN HTTPException(500, "Missing 'cover_letter_text' in OpenAI response")
    ELSE IF data.ty # "dict" THEN Uncaught("AttributeError")
    ELSE GenerateCLResponse(DictGet(data, "cover_letter_text", JStr("")),
                            DictGet(data, "summary", JNull))

\* read_root
RootBody ==
    JDict(<<"status", "message">>, <<JStr("ok"), JStr("Job Helper API is running")>>)

(***************************************************************************)
(* The handlers: what the gateway's outcome becomes.  An HTTPException of  *)
(* the gateway is not caught and leaves the handler as it is.              *)
(***************************************************************************)
score_resume(g) == IF g.kind = "return" THEN ScoreFromData(g.val) ELSE g

generate_cover_letter(g) == IF g.kind = "return" THEN CoverFromData(g.val) ELSE g

(***************************************************************************)
(* Inputs: requests and provider outcomes.                                 *)
(***************************************************************************)
RECURSIVE Dumps(_)
RECURSIVE DumpsItems(_)
RECURSIVE DumpsMembers(_, _)

DumpsItems(kids) ==
    IF Len(kids) = 1 THEN Dumps(kids[1])
    ELSE Dumps(Head(kids)) \o <<P(",")>> \o DumpsItems(Tail(kids))

DumpsMembers(keys, kids) ==
    LET m == <<TStr(Head(keys)), P(":")>> \o Dumps(Head(kids)) IN
    IF Len(keys) = 1 THEN m
    ELSE m \o <<P(",")>> \o DumpsMembers(Tail(keys), Tail(kids))

\* The JSON text of a value.
Dumps(v) ==
    CASE v.ty = "null" -> <<TNull>>
      [] v.ty = "bool" -> IF v.n = 1 THEN <<TTrue>> ELSE <<TFalse>>
      [] v.ty = "num" -> <<TNum(v.n)>>
      [] v.ty = "inf" -> <<TInf>>
      [] v.ty = "nan" -> <<TNaN>>
      [] v.ty = "str" -> <<TStr(v.s)>>
      [] v.ty = "list" -> IF v.kids = <<>> THEN <<P("["), P("]")>>
                          ELSE <<P("[")>> \o DumpsItems(v.kids) \o <<P("]")>>
      [] v.ty = "dict" -> IF v.keys = <<>> THEN <<P("{"), P("}")>>
                          ELSE <<P("{")>> \o DumpsMembers(v.keys, v.kids) \o <<P("}")>>

Absent == [some |-> FALSE, v |-> JNull]

\* The dict of the keys whose option is present.
RECURSIVE MakeDict(_, _)
MakeDict(keys, opts) ==
    IF keys = <<>> THEN JDict(<<>>, <<>>)
    ELSE LET d == MakeDict(SubSeq(keys, 1, Len(keys) - 1), SubSeq(opts, 1, Len(opts) - 1))
             o == opts[Len(opts)]
         IN  IF o.some THEN JDict(Append(d.keys, keys[Len(keys)]), Append(d.kids, o.v)) ELSE d

StrList(sq) == JList([i \in 1..Len(sq) |-> JStr(sq[i])])

Keywords == {"Python", "SQL"}

MatchScoreOptions ==
    {Absent} \cup {Some(v) : v \in {JNum(826), JNum(825), JNum(835), JNum(1006), JNum(-15),
                                    JStr("82.6"), JStr("abc"), JNull, JInf}}

TopKeywordsOptions ==
    {Absent} \cup {Some(StrList(sq)) : sq \in SeqsUpTo(Keywords, MaxKw)}
             \cup {Some(JNull), Some(JStr("Python, SQL")), Some(JList(<<JStr("Python"), JNull>>))}

MissingKeywordsOptions == {Absent, Some(JNull), Some(StrList(<<"SQL">>))}

EditsOptions == {Absent, Some(JNull), Some(JStr("Add SQL examples.")), Some(JList(<<>>))}

ScoreMappings ==
    {MakeDict(required_keys, <<a, b, c, d>>) :
        a \in MatchScoreOptions, b \in TopKeywordsOptions,
        c \in MissingKeywordsOptions, d \in EditsOptions}

CoverTextOptions == {Absent, Some(JNull), Some(JStr("Dear Acme team, ...")), Some(JList(<<>>))}

SummaryOptions == {Absent, Some(JNull), Some(JStr("A strong fit.")), Some(JList(<<>>))}

CoverMappings ==
    {MakeDict(cover_keys, <<a, b>>) : a \in CoverTextOptions, b \in SummaryOptions}

WellFormedScore ==
    MakeDict(required_keys, <<Some(JNum(826)), Some(StrList(<<"Python", "SQL">>)),
                              Some(StrList(<<"SQL">>)), Some(JStr("Add SQL examples."))>>)

Alphabet ==
    {P("{"), P("}"), P("["), P("]"), P(","), TNull, TNum(826), TStr("Python"), TWord("Sure")}

\* Every text of at most MaxToks tokens.
ShortTexts == SeqsUpTo(Alphabet, MaxToks)

\* A str and a list that hold every key, a repeated key, leading prose, trailing prose.
SpecialTexts ==
    { <<TStr(KeysText)>>,
      Dumps(StrList(required_keys \o <<"cover_letter_text">>)),
      <<P("{"), TStr("cover_letter_text"), P(":"), TStr("Dear Acme team, ..."), P(","),
        TStr("cover_letter_text"), P(":"), TNull, P("}")>>,
      <<TWord("Here is the JSON:")>> \o Dumps(WellFormedScore),
      Dumps(WellFormedScore) \o <<TWord("Hope this helps!")>>,
      <<TTrue>>, <<TNaN>> }

ScoreTexts ==
    {Dumps(m) : m \in ScoreMappings \cup CoverMappings} \cup ShortTexts \cup SpecialTexts

CoverTexts ==
    {Dumps(m) : m \in CoverMappings \cup {WellFormedScore}} \cup ShortTexts \cup SpecialTexts

\* str(response) of a response without the expected structure.
ReprTexts == { <<TWord("Response(id='resp_1', output=[])")>>, <<P("{"), P("}")>> }

ProviderErrors ==
    { ProviderRaise("APITimeoutError", "Request timed out."),
      ProviderRaise("APIConnectionError", "Connection error."),
      ProviderRaise("AuthenticationError", "Incorrect API key provided"),
      ProviderRaise("JSONDecodeError", "Expecting value: line 1 column 1 (char 0)") }

ProviderOutcomes(texts) ==
    ProviderErrors \cup {ProviderText(t) : t \in texts} \cup {ProviderNoneText}
                   \cup {ProviderUnstructured(r) : r \in ReprTexts}

Jobs ==
    { JobInfo("Acme", "Engineer", NoneStr, "Python, SQL", NoneStr),
      JobInfo("Acme", "Engineer", Some("Berlin"), "Python, SQL", Some("https://acme.example/jobs/1")) }

Resumes == { ResumeInfo("A", "5 years Python") }

Tones == {NoneStr, Some("professional but conversational"), Some("formal")}

Lengths == {Some("3 paragraphs"), Some("1 page")}

FocusPoints == {NoneList} \cup {Some(sq) : sq \in SeqsUpTo(Keywords, MaxFocus)}

ExtrasOptions ==
    {NoExtras} \cup {Some(Extras(t, l, f)) : t \in Tones, l \in Lengths, f \in FocusPoints}

NoRequest == Request(JobInfo("", "", NoneStr, "", NoneStr), ResumeInfo("", ""), NoExtras)

(***************************************************************************)
(* The service: each request is handled on its own, start to finish, and   *)
(* nothing of it is kept once the response is sent.                        *)
(***************************************************************************)
Init ==
    /\ endpoint = "none"
    /\ payload = NoRequest
    /\ prompt = <<>>
    /\ provider = NoProvider
    /\ gateway = NoOutcome
    /\ response = NoOutcome

ScoreResume ==
    /\ endpoint = "none"
    /\ \E job \in Jobs, resume \in Resumes, prov \in ProviderOutcomes(ScoreTexts) :
        /\ endpoint' = "/score-resume"
        /\ payload' = Request(job, resume, NoExtras)
        /\ prompt' = ScorePrompt(job, resume)
        /\ provider' = prov
        /\ gateway' = call_openai_for_json(prov)
        /\ response' = score_resume(call_openai_for_json(prov))

GenerateCoverLetter ==
    /\ endpoint = "none"
    /\ \E job \in Jobs, resume \in Resumes, extras \in ExtrasOptions,
       prov \in ProviderOutcomes(CoverTexts) :
        /\ endpoint' = "/generate-cover-letter"
        /\ payload' = Request(job, resume, extras)
        /\ prompt' = CoverLetterPrompt(job, resume, ExtrasOrDefault(extras))
        /\ provider' = prov
        /\ gateway' = call_openai_for_json(prov)
        /\ response' = generate_cover_letter(call_openai_for_json(prov))

ReadRoot ==
    /\ endpoint = "none"
    /\ endpoint' = "/"
    /\ payload' = NoRequest
    /\ prompt' = <<>>
    /\ provider' = NoProvider
    /\ gateway' = NoOutcome
    /\ response' = Return(RootBody)

\* The response is sent; the request's objects are discarded.
SendResponse ==
    /\ endpoint # "none"
    /\ endpoint' = "none"
    /\ payload' = NoRequest
    /\ prompt' = <<>>
    /\ provider' = NoProvider
    /\ gateway' = NoOutcome
    /\ response' = NoOutcome

Next == ScoreResume \/ GenerateCoverLetter \/ ReadRoot \/ SendResponse

Spec == Init /\ [][Next]_vars

\* What the caller receives: FastAPI turns an HTTPException into its status with a
\* detail, and any exception no handler catches into a bare 500.
HttpResponse(o) ==
    CASE o.kind = "HTTPException" -> [status |-> o.status_code, detail |-> Some(o.detail)]
      [] o.kind = "uncaught" -> [status |-> 500, detail |-> NoneStr]
      [] OTHER -> [status |-> 200, detail |-> NoneStr]

TypeOK ==
    /\ endpoint \in {"none", "/", "/score-resume", "/generate-cover-letter"}
    /\ response.kind \in {"none", "return", "HTTPException", "uncaught"}
    /\ endpoint = "/" => response = Return(RootBody)

(***************************************************************************)
(* Properties.                                                             *)
(***************************************************************************)
Scored == endpoint = "/score-resume"
Covered == endpoint = "/generate-cover-letter"
Handled == Scored \/ Covered
GotMapping == gateway.kind = "return" /\ gateway.val.ty = "dict"
Has(key) == key \in Range(gateway.val.keys)
Value(key) == gateway.val.kids[IndexOf(gateway.val.keys, key)]
Field(key) == response.val.kids[IndexOf(response.val.keys, key)]
MissingKeys == {k \in Range(required_keys) : ~Has(k)}
IsServerError(detail) ==
    response.kind = "HTTPException" /\ response.status_code = 500 /\ response.detail = detail

\* C1: score_resume on a mapping that lacks a required key fails with HTTP 500 and
\* no result; the detail names the first missing key in the order of required_keys,
\* which is the missing key when exactly one is missing.
C1_MissingKeyNamed ==
    (Scored /\ GotMapping /\ MissingKeys # {}) =>
        /\ \E i \in 1..Len(required_keys) :
              /\ required_keys[i] \in MissingKeys
              /\ \A j \in 1..(i - 1) : required_keys[j] \notin MissingKeys
              /\ IsServerError("Missing key in OpenAI response: " \o required_keys[i])
        /\ \A k \in MissingKeys :
              MissingKeys = {k} => IsServerError("Missing key in OpenAI response: " \o k)

C1_Witness ==
    /\ Scored /\ GotMapping
    /\ MissingKeys = {"top_keywords", "suggested_resume_edits"}
    /\ IsServerError("Missing key in OpenAI response: top_keywords")

\* The integer r is x = t / 10 rounded to the nearest integer, a tie to the even one.
IsRounded(r, t) ==
    /\ 10 * r - t \in -5..5
    /\ 10 * r - t \in {-5, 5} => r % 2 = 0

ScoreResultMatches ==
    /\ response.kind = "return"
    /\ response.val.keys = required_keys
    /\ PyFloat(Value("match_score")).ok /\ PyFloat(Value("match_score")).kind = "finite"
    /\ \E r \in -1000..1000 :
          /\ Field("match_score") = JNum(10 * r)
          /\ IsRounded(r, PyFloat(Value("match_score")).t)
    /\ Field("top_keywords") = Value("top_keywords")
    /\ Field("missing_or_weak_keywords") = Value("missing_or_weak_keywords")
    /\ Field("suggested_resume_edits") = Value("suggested_resume_edits")

IsListOfStrings(v) == v.ty = "list" /\ \A i \in 1..Len(v.kids) : v.kids[i].ty = "str"

ScoreWellTyped ==
    /\ PyFloat(Value("match_score")).ok /\ PyFloat(Value("match_score")).kind = "finite"
    /\ IsListOfStrings(Value("top_keywords"))
    /\ IsListOfStrings(Value("missing_or_weak_keywords"))
    /\ Value("suggested_resume_edits").ty = "str"

\* C2 as claimed, for the mappings whose two keyword values are lists and whose
\* suggested_resume_edits is a string: score_resume on any such mapping with all
\* four required keys returns a result with match_score = round(float(value)),
\* unclamped, and the other three fields equal to the mapping's.
C2_Original ==
    ( /\ Scored /\ GotMapping /\ MissingKeys = {}
      /\ Value("top_keywords").ty = "list"
      /\ Value("missing_or_weak_keywords").ty = "list"
      /\ Value("suggested_resume_edits").ty = "str" )
    => ScoreResultMatches

\* C2: score_resume on a mapping with all four required keys whose match_score
\* float() converts to a finite number, whose two keyword values are lists of strings
\* and whose suggested_resume_edits is a string returns a result with match_score =
\* round(float(value)), unclamped, and the other three fields equal to the mapping's.
C2_WellTypedRoundTrip ==
    (Scored /\ GotMapping /\ MissingKeys = {} /\ ScoreWellTyped) => ScoreResultMatches

C2_Witness ==
    /\ Scored /\ GotMapping /\ MissingKeys = {}
    /\ Value("match_score") = JNum(826)
    /\ Value("top_keywords") = StrList(<<"Python", "SQL">>)
    /\ response.kind = "return"
    /\ Field("match_score") = JNum(830)
    /\ Field("top_keywords") = StrList(<<"Python", "SQL">>)

\* The text json.loads is given: text of a structured response, else str(response).
ExtractedText == IF provider.structured THEN provider.text ELSE provider.repr
TextExtracted == provider.kind = "response" /\ (provider.structured => provider.textIsStr)

\* C3: from either handler, when the extracted text of the provider's response is
\* not JSON the request fails with HTTP 500 and the fixed not-valid-JSON detail, and
\* neither the gateway nor the handler returns anything.
C3_NonJsonIsFormatError ==
    (Handled /\ TextExtracted /\ ~Loads(ExtractedText).ok) =>
        /\ gateway = HTTPException(500, FormatErrorDetail)
        /\ IsServerError(FormatErrorDetail)
        /\ response.val = JNull

C3_Witness ==
    /\ Covered
    /\ provider.structured /\ provider.textIsStr
    /\ provider.text = Dumps(WellFormedScore) \o <<TWord("Hope this helps!")>>
    /\ IsServerError(FormatErrorDetail)

IsFormatError(o) == o = HTTPException(500, FormatErrorDetail)
IsGatewayError(o) ==
    \E msg \in {e.msg : e \in ProviderErrors} \cup {JsonLoadsTypeErrorMsg, ExtractionErrorMsg} :
        o = HTTPException(500, GatewayErrorPrefix \o msg)

\* C4: a call of the gateway returns a string-keyed mapping or fails with the
\* model-output-format error or the model-gateway error, and nothing else.
C4_MappingOrTypedError ==
    Handled => \/ (gateway.kind = "return" /\ gateway.val.ty = "dict")
               \/ IsFormatError(gateway)
               \/ IsGatewayError(gateway)

\* C5, for the gateway outcomes C4 allows (a mapping or a typed error): every
\* request that does not return a result ends with status 500 and a detail string.
C5_FailuresCarryDetail ==
    (Handled /\ (GotMapping \/ gateway.kind = "HTTPException") /\ response.kind # "return") =>
        /\ HttpResponse(response).status = 500
        /\ HttpResponse(response).detail.some
        /\ HttpResponse(response).detail.v # ""

CoverResultMatches ==
    /\ response.kind = "return"
    /\ response.val.keys = cover_keys
    /\ Field("cover_letter_text") = Value("cover_letter_text")
    /\ Field("summary") = IF Has("summary") THEN Value("summary") ELSE JNull

\* C6 as claimed: generate_cover_letter fails with HTTP 500 when cover_letter_text
\* is absent, and whenever it is present returns its value with the summary, or with
\* no summary when that is absent or null.
C6_Original ==
    (Covered /\ GotMapping) =>
        /\ ~Has("cover_letter_text") => HttpResponse(response).status = 500 /\ response.val = JNull
        /\ Has("cover_letter_text") => CoverResultMatches

\* C6: generate_cover_letter fails with HTTP 500 when cover_letter_text is absent;
\* when it is present with a string value, and summary is a string, absent or null,
\* it returns that value with the summary, or with no summary when that is absent
\* or null; when it is present but null it fails with HTTP 500 and no result.
C6_CoverLetterResult ==
    (Covered /\ GotMapping) =>
        /\ ~Has("cover_letter_text") =>
              IsServerError("Missing 'cover_letter_text' in OpenAI response") /\ response.val = JNull
        /\ ( /\ Has("cover_letter_text") /\ Value("cover_letter_text").ty = "str"
             /\ Has("summary") => Value("summary").ty \in {"str", "null"} )
              => CoverResultMatches
        /\ (Has("cover_letter_text") /\ Value("cover_letter_text") = JNull) =>
              /\ response.kind = "uncaught"
              /\ HttpResponse(response).status = 500
              /\ response.val = JNull

C6_Witness ==
    /\ Covered /\ GotMapping
    /\ Has("cover_letter_text") /\ Value("cover_letter_text") = JStr("Dear Acme team, ...")
    /\ Has("summary") /\ Value("summary") = JStr("A strong fit.")
    /\ response = Return(JDict(cover_keys, <<JStr("Dear Acme team, ..."), JStr("A strong fit.")>>))

\* C7: with extras omitted the prompt has the default tone and length and an empty
\* focus clause, and is the prompt of a request that supplies the default extras.
C7_DefaultExtras ==
    (Covered /\ ~payload.extras.some) =>
        /\ prompt[ToneLine] = "- Tone: professional but conversational"
        /\ prompt[LengthLine] = "- Length: 3 paragraphs"
        /\ prompt[FocusLine] = "- "
        /\ prompt = CoverLetterPrompt(payload.job, payload.resume,
                        Extras(Some("professional but conversational"),
                               Some("3 paragraphs"), NoneList))

C7_Witness ==
    /\ Covered /\ ~payload.extras.some
    /\ prompt[ToneLine] = "- Tone: professional but conversational"
    /\ prompt[LengthLine] = "- Length: 3 paragraphs"

\* items[1], ", ", items[2], ", ", ..., items[n], built from the last item.
RECURSIVE CommaJoined(_)
CommaJoined(items) ==
    IF Len(items) = 1 THEN items[1]
    ELSE CommaJoined(SubSeq(items, 1, Len(items) - 1)) \o ", " \o items[Len(items)]

GivenFocusPoints ==
    IF payload.extras.some /\ payload.extras.v.focus_points.some
    THEN payload.extras.v.focus_points.v ELSE <<>>

\* C8: the focus clause of the prompt is "Focus on these points: " and the points
\* joined with ", " in their order when focus_points is a non-empty list, and empty
\* when extras is omitted or focus_points is null or empty.
C8_FocusClause ==
    Covered =>
        prompt[FocusLine] =
            IF GivenFocusPoints # <<>>
            THEN "- Focus on these points: " \o CommaJoined(GivenFocusPoints)
            ELSE "- "

C8_Witness ==
    /\ Covered
    /\ GivenFocusPoints = <<"SQL", "Python">>
    /\ prompt[FocusLine] = "- Focus on these points: SQL, Python"

NetworkFailure == provider.kind = "raise" /\ provider.exc # "JSONDecodeError"
ExtractionFailure == provider.kind = "response" /\ ~provider.structured

\* C9 as claimed: a failure of the network call or of the extraction, other than a
\* JSON syntax failure, raises the gateway error with the underlying message and
\* never the format error.
C9_Original ==
    (Handled /\ (NetworkFailure \/ ExtractionFailure)) =>
        IsGatewayError(gateway) /\ ~IsFormatError(gateway)

\* C9: a failure of the network call other than a JSON syntax failure raises the
\* gateway error (HTTP 500) with the underlying message and never the format error;
\* a response without the expected structure raises no gateway error: its string
\* form is parsed instead, and the format error is raised when that is not JSON.
C9_GatewayError ==
    Handled =>
        /\ NetworkFailure =>
              gateway = HTTPException(500, "Error while calling OpenAI: " \o provider.msg)
        /\ ExtractionFailure =>
              /\ ~IsGatewayError(gateway)
              /\ ~Loads(provider.repr).ok => IsFormatError(gateway)

C9_Witness ==
    /\ Scored
    /\ provider = ProviderRaise("APITimeoutError", "Request timed out.")
    /\ response = HTTPException(500, "Error while calling OpenAI: Request timed out.")

NullToEmpty(v, empty) == IF v = JNull THEN empty ELSE v

\* C10: score_resume on a mapping with all four keys, a usable match_score, and
\* null for some of top_keywords, missing_or_weak_keywords, suggested_resume_edits
\* (the others well typed) returns a result with [] for a null list and "" for null
\* suggested_resume_edits.
C10_NullBecomesEmpty ==
    ( /\ Scored /\ GotMapping /\ MissingKeys = {}
      /\ PyFloat(Value("match_score")).ok /\ PyFloat(Value("match_score")).kind = "finite"
      /\ Value("top_keywords") = JNull \/ IsListOfStrings(Value("top_keywords"))
      /\ Value("missing_or_weak_keywords") = JNull \/ IsListOfStrings(Value("missing_or_weak_keywords"))
      /\ Value("suggested_resume_edits").ty \in {"null", "str"} )
    => /\ response.kind = "return"
       /\ Field("top_keywords") = NullToEmpty(Value("top_keywords"), JList(<<>>))
       /\ Field("missing_or_weak_keywords") = NullToEmpty(Value("missing_or_weak_keywords"), JList(<<>>))
       /\ Field("suggested_resume_edits") = NullToEmpty(Value("suggested_resume_edits"), JStr(""))

====
